---- MODULE Spec2Model ----
(***************************************************************************)
(* A model of coders/yuv.c: ReadYUVImage and WriteYUVImage, the raw CCIR   *)
(* 601 YUV coder.  Images are flat arrays of Quantum with PixelChannels    *)
(* entries per pixel, as the pixel pointers of the source see them.  The   *)
(* MagickCore services the coder calls (blobs, pixel cache, resize, the    *)
(* progress monitor, allocation) are the environment: their answers are    *)
(* drawn with \E where the coder receives them.                            *)
(*                                                                         *)
(* Assumptions on the environment (inputs that are not enumerated):        *)
(*  - a Q16 build (QuantumRange 65535), image->endian not LSBEndian;       *)
(*  - the pixel cache serves every region that lies inside its image       *)
(*    (QueueAuthenticPixels / GetAuthenticPixels / SyncAuthenticPixels     *)
(*    fail only for a region outside the image);                           *)
(*  - a progress monitor that has asked to stop keeps asking to stop;      *)
(*  - the chroma plane is never empty (columns >= horizontal factor and    *)
(*    rows >= vertical factor) unless columns or rows is zero;             *)
(*  - image_info->scene is 0; every frame handed to the encoder has the    *)
(*    same size.                                                           *)
(***************************************************************************)
EXTENDS Integers, Sequences, FiniteSets, TLC

VARIABLES
  op,                \* "read" | "write" | "readback" (a read of what a write produced)
  pc,                \* position in the running coder
  image_info,        \* the caller's ImageInfo (and, for write, the image list's size)
  quantum,           \* bytes per sample
  interlace,         \* effective layout
  horizontal_factor,
  vertical_factor,
  files,             \* stream name -> bytes
  known,             \* the streams whose content is fixed (seen or written)
  blob,              \* the blob of the current image
  leaked,            \* streams detached from the blob while still open
  filename,          \* image->filename: "orig" or the partition it names
  scanline,          \* the scanline buffer (<< >> when not allocated)
  images,            \* read: the image list; the current image is the last
  chroma_image,      \* read: the subsampled chroma plane being filled
  y,                 \* row counter of the running row loop
  status,
  exception,         \* the exceptions thrown so far
  ret,               \* what the coder returned: [images, status]
  cancel,            \* the progress monitor has asked to stop
  allocated,         \* buffers and working images acquired and not released
  oob,               \* a pixel or buffer access left its row
  cur,               \* write: index of the current image in the list
  scene,             \* write: the scene counter
  calls,             \* how often the progress monitor was consulted
  count              \* read: what the last ReadBlob returned

vars == <<op, pc, image_info, quantum, interlace, horizontal_factor,
          vertical_factor, files, known, blob, leaked, filename, scanline,
          images, chroma_image, y, status, exception, ret, cancel, allocated,
          oob, cur, scene, calls, count>>

(***************************************************************************)
(* Bounds of the model.                                                    *)
(***************************************************************************)
MaxCols == 4
MaxRows == 3
MaxFrames == 2
MaxFactor == 3

(***************************************************************************)
(* Values.                                                                 *)
(***************************************************************************)
PixelChannels == 4
RedOffset == 0
GreenOffset == 1
BlueOffset == 2
Undef == -1        \* an indeterminate value: memory never written
Resampled == -2    \* a value computed by the resize filter

InterlaceTypes ==
  {"UndefinedInterlace", "NoInterlace", "PlaneInterlace", "PartitionInterlace"}

Names == {"orig", "Y", "U", "V"}

Min(a, b) == IF a < b THEN a ELSE b

RECURSIVE BitAnd(_, _)
BitAnd(a, b) ==
  IF a = 0 \/ b = 0 THEN 0
  ELSE (a % 2) * (b % 2) + 2 * BitAnd(a \div 2, b \div 2)

(***************************************************************************)
(* Sample conversions of a Q16 build.                                      *)
(***************************************************************************)
ScaleCharToQuantum(value) == IF value < 0 THEN value ELSE 257 * value

ScaleShortToQuantum(value) == value

ScaleQuantumToChar(q) ==
  IF q < 0 THEN q ELSE ((q + 128) - ((q + 128) \div 256)) \div 256

ScaleQuantumToShort(q) == q

(***************************************************************************)
(* The sampling factor.  A sampling-factor string is given by what         *)
(* ParseGeometry makes of it: rho, sigma and the SigmaValue flag.          *)
(***************************************************************************)
NoSamplingFactor == [given |-> FALSE, rho |-> 0, sigma |-> 0, SigmaValue |-> FALSE]

SamplingInputs ==
  {NoSamplingFactor}
  \cup {[given |-> TRUE, rho |-> r, sigma |-> 0, SigmaValue |-> FALSE] :
          r \in 1..MaxFactor}
  \cup {[given |-> TRUE, rho |-> r, sigma |-> s, SigmaValue |-> TRUE] :
          r \in 1..MaxFactor, s \in 1..MaxFactor}

HorizontalFactor(sf) == IF sf.given THEN sf.rho ELSE 2

VerticalFactor(sf) ==
  IF ~sf.given THEN 2
  ELSE IF ~sf.SigmaValue THEN sf.rho
  ELSE sf.sigma

ReadSamplingRejected(sf) ==
  LET h == HorizontalFactor(sf)
      v == VerticalFactor(sf)
  IN  sf.given /\ (h # 1) /\ (h # 2) /\ (v # 1) /\ (v # 2)

WriteSamplingRejected(sf) ==
  LET h == HorizontalFactor(sf)
      v == VerticalFactor(sf)
  IN  sf.given /\ (h # 1) /\ (h # 2) /\ (v # 1) /\ (v # 2)

(***************************************************************************)
(* The effective layout.                                                   *)
(***************************************************************************)
\* A derivation that leaves a declared NoInterlace alone whatever the vertical
\* factor.
ReadEffectiveInterlaceAsDeclared(declared, v) ==
  IF declared = "UndefinedInterlace"
  THEN IF v = 2 THEN "PlaneInterlace" ELSE "NoInterlace"
  ELSE declared

ReadEffectiveInterlace(declared, v) ==
  IF (declared = "UndefinedInterlace")
       \/ ((declared = "NoInterlace") /\ (v = 2))
  THEN IF v = 2 THEN "PlaneInterlace" ELSE "NoInterlace"
  ELSE declared

WriteEffectiveInterlace(declared, v) ==
  IF (declared = "UndefinedInterlace")
       \/ ((declared = "NoInterlace") /\ (v = 2))
  THEN IF v = 2 THEN "PlaneInterlace" ELSE "NoInterlace"
  ELSE declared

(***************************************************************************)
(* Blobs.                                                                  *)
(***************************************************************************)
ClosedBlob == [open |-> FALSE, name |-> "orig", pos |-> 0, eof |-> FALSE]

OpenedBlob(name) == [open |-> TRUE, name |-> name, pos |-> 0, eof |-> FALSE]

\* The content of a stream met by the decoder: byte i of stream n.
Pattern(n, i) ==
  LET k == CASE n = "orig" -> 0 [] n = "Y" -> 1 [] n = "U" -> 2 [] n = "V" -> 3
  IN  (17 * i + 64 * k + 5) % 256

PatternFile(n, len) == [i \in 1..len |-> Pattern(n, i)]

\* ReadBlob(image,length,data): the bytes delivered, the data buffer after it,
\* and the blob after it.  A short read leaves the blob at end of file.
ReadBlobCount(b, length) == Min(length, Len(files[b.name]) - b.pos)

ReadBlobData(b, length, data) ==
  LET got == ReadBlobCount(b, length)
  IN  [i \in DOMAIN data |->
         IF i < got THEN files[b.name][b.pos + i + 1] ELSE data[i]]

ReadBlobNext(b, length) ==
  LET got == ReadBlobCount(b, length)
  IN  [b EXCEPT !.pos = b.pos + got, !.eof = b.eof \/ (got < length)]

(***************************************************************************)
(* Pixels.  An image's pixels are one flat array, PixelChannels entries    *)
(* per pixel, rows in order; a pixel pointer is an index into it.  A store *)
(* through a pointer that left the row [lo, hi) is recorded in oob; it     *)
(* lands in the array when the index is still inside it.                   *)
(***************************************************************************)
NewPixels(columns, rows) ==
  [i \in 0..(columns * rows * PixelChannels - 1) |-> Undef]

NewImage(columns, rows) ==
  [columns |-> columns, rows |-> rows, pix |-> NewPixels(columns, rows),
   colorspace |-> "RGB"]

NoImage == [columns |-> 0, rows |-> 0, pix |-> << >>, colorspace |-> "none"]

RowStart(img, row) == row * img.columns * PixelChannels

RowEnd(img, row) == (row + 1) * img.columns * PixelChannels

Load(data, i) == IF i \in DOMAIN data THEN data[i] ELSE Undef

Store(data, i, value) ==
  IF i \in DOMAIN data THEN [data EXCEPT ![i] = value] ELSE data

\* One sample at scanline index p: a byte, or two bytes most significant first.
Sample(buf, p, width) ==
  IF width = 1 THEN ScaleCharToQuantum(Load(buf, p))
  ELSE LET b0 == Load(buf, p)
           b1 == Load(buf, p + 1)
       IN  IF b0 < 0 \/ b1 < 0 THEN Undef
           ELSE ScaleShortToQuantum(b0 * 256 + b1)

\* The column loop of a NoInterlace row, lines 240-280.  s holds the two pixel
\* arrays and the three pointers: p (scanline), q (image), cp (chroma_pixels).
RECURSIVE ReadNoInterlaceColumns(_, _, _)
ReadNoInterlaceColumns(x, s, r) ==
  IF x >= r.columns THEN s
  ELSE
    LET c1 == Store(Store(s.chroma, s.cp + RedOffset, 0),
                    s.cp + GreenOffset, Sample(r.buf, s.p, r.quantum))
        p1 == s.p + r.quantum
        i1 == Store(Store(Store(s.image, s.q + RedOffset,
                                Sample(r.buf, p1, r.quantum)),
                          s.q + GreenOffset, 0),
                    s.q + BlueOffset, 0)
        p2 == p1 + r.quantum
        q1 == s.q + PixelChannels
        i2 == Store(Store(i1, q1 + GreenOffset, 0), q1 + BlueOffset, 0)
        c2 == Store(c1, s.cp + BlueOffset, Sample(r.buf, p2, r.quantum))
        p3 == p2 + r.quantum
        i3 == Store(i2, q1 + RedOffset, Sample(r.buf, p3, r.quantum))
        p4 == p3 + r.quantum
        out == (s.q + BlueOffset >= r.qhi) \/ (q1 + BlueOffset >= r.qhi)
                 \/ (s.cp + BlueOffset >= r.chi) \/ (p4 > r.delivered)
    IN  ReadNoInterlaceColumns(x + 2,
          [image |-> i3, chroma |-> c2, oob |-> s.oob \/ out,
           p |-> p4, q |-> q1 + PixelChannels, cp |-> s.cp + 1], r)

\* The column loop of a luma row of a plane layout, lines 290-302.
RECURSIVE ReadLumaColumns(_, _, _)
ReadLumaColumns(x, s, r) ==
  IF x >= r.columns THEN s
  ELSE
    LET i1 == Store(Store(Store(s.image, s.q + RedOffset,
                                Sample(r.buf, s.p, r.quantum)),
                          s.q + GreenOffset, 0),
                    s.q + BlueOffset, 0)
    IN  ReadLumaColumns(x + 1,
          [s EXCEPT !.image = i1, !.p = s.p + r.quantum,
                    !.q = s.q + PixelChannels], r)

\* The column loop of a U row, lines 338-351.
RECURSIVE ReadUColumns(_, _, _)
ReadUColumns(x, s, r) ==
  IF x >= r.columns THEN s
  ELSE
    LET c1 == Store(Store(Store(s.chroma, s.q + RedOffset, 0),
                          s.q + GreenOffset, Sample(r.buf, s.p, r.quantum)),
                    s.q + BlueOffset, 0)
    IN  ReadUColumns(x + 1,
          [s EXCEPT !.chroma = c1, !.p = s.p + r.quantum,
                    !.q = s.q + PixelChannels], r)

\* The column loop of a V row, lines 374-385.
RECURSIVE ReadVColumns(_, _, _)
ReadVColumns(x, s, r) ==
  IF x >= r.columns THEN s
  ELSE
    LET c1 == Store(s.chroma, s.q + BlueOffset, Sample(r.buf, s.p, r.quantum))
    IN  ReadVColumns(x + 1,
          [s EXCEPT !.chroma = c1, !.p = s.p + r.quantum,
                    !.q = s.q + PixelChannels], r)

\* ResizeImage(chroma_image,columns,rows,...): the filter's output; the input
\* itself when the size does not change.
ResizeImage(img, columns, rows) ==
  IF columns = img.columns /\ rows = img.rows THEN img
  ELSE [columns |-> columns, rows |-> rows,
        pix |-> [i \in 0..(columns * rows * PixelChannels - 1) |-> Resampled],
        colorspace |-> img.colorspace]

\* The merge of the resized chroma into the image, lines 398-415: one row.
RECURSIVE MergeColumns(_, _, _)
MergeColumns(x, s, r) ==
  IF x >= r.columns THEN s
  ELSE
    LET i1 == Store(Store(s.image, s.q + GreenOffset,
                          Load(r.resized, s.cp + GreenOffset)),
                    s.q + BlueOffset, Load(r.resized, s.cp + BlueOffset))
    IN  MergeColumns(x + 1,
          [s EXCEPT !.image = i1, !.cp = s.cp + 1,
                    !.q = s.q + PixelChannels], r)

RECURSIVE MergeRows(_, _, _)
MergeRows(row, pix, resized) ==
  IF row >= resized.rows THEN pix
  ELSE MergeRows(row + 1,
         MergeColumns(0,
           [image |-> pix, q |-> row * resized.columns * PixelChannels,
            cp |-> row * resized.columns * PixelChannels],
           [columns |-> resized.columns, resized |-> resized.pix]).image,
         resized)

(***************************************************************************)
(* Geometry of the frame being coded.                                      *)
(***************************************************************************)
ChromaColumns == image_info.columns \div horizontal_factor

ChromaRows == image_info.rows \div vertical_factor

\* The bytes ReadYUVImage asks of stream n for one frame.  The NoInterlace row
\* loop reads a row and then leaves at the first row that has no chroma row.
StreamFrameBytes(n) ==
  IF n = "orig"
  THEN IF interlace = "NoInterlace"
       THEN 2 * quantum * image_info.columns
              * Min(image_info.rows, ChromaRows + 1)
       ELSE quantum * image_info.columns * image_info.rows
              + 2 * quantum * ChromaColumns * ChromaRows
  ELSE IF n = "Y" THEN quantum * image_info.columns * image_info.rows
  ELSE quantum * ChromaColumns * ChromaRows

\* The lengths a stream met by the decoder may have: whole and half frames,
\* and at most one stream of a partition triple off its frame size.
FileLengths(n) ==
  IF \E m \in known \ {n} : Len(files[m]) # StreamFrameBytes(m)
  THEN {StreamFrameBytes(n)}
  ELSE {(k * StreamFrameBytes(n)) \div 2 : k \in 0..(2 * MaxFrames)}

CurrentImage == images[Len(images)]

Exception(tag, line) == [tag |-> tag, line |-> line]

(***************************************************************************)
(* ReadYUVImage.                                                           *)
(***************************************************************************)
Reading == op \in {"read", "readback"}

\* ThrowReaderException: record the exception, close the blob, destroy the
\* image list and return NULL.
ThrowReaderException(tag, line) ==
  /\ exception' = exception \cup {Exception(tag, line)}
  /\ blob' = ClosedBlob
  /\ images' = << >>
  /\ ret' = [ret EXCEPT !.images = << >>]
  /\ pc' = "done"

\* A failed OpenBlob followed by DestroyImageList and return NULL.
OpenFailed ==
  /\ exception' = exception \cup {Exception("UnableToOpenBlob", 0)}
  /\ leaked' = leaked + (IF blob.open THEN 1 ELSE 0)
  /\ blob' = ClosedBlob
  /\ images' = << >>
  /\ ret' = [ret EXCEPT !.images = << >>]
  /\ status' = FALSE
  /\ pc' = "done"

\* A successful OpenBlob for reading of stream n, found len bytes long when
\* it is met for the first time.
OpenedForRead(n, len) ==
  /\ leaked' = leaked + (IF blob.open THEN 1 ELSE 0)
  /\ blob' = OpenedBlob(n)
  /\ files' = IF n \in known THEN files
              ELSE [files EXCEPT ![n] = PatternFile(n, len)]
  /\ known' = known \cup {n}
  /\ status' = TRUE

\* The answers the environment may give: a read-back runs in an environment
\* that does not fail.
Answers == IF op = "readback" THEN {TRUE} ELSE BOOLEAN

\* AppendImageFormat(format,filename): the name of that partition of the file.
AppendImageFormat(format, name) == format

\* The progress monitor is consulted and answers.
Monitor(answer) ==
  /\ cancel => ~answer
  /\ cancel' = ~answer
  /\ calls' = calls + 1

\* status=SetImageProgress(...).
SetImageProgress(answer) ==
  /\ Monitor(answer)
  /\ status' = answer

\* A setup that opens the stream before it looks at the size and the sampling
\* factor.
R_SetupOpensFirst ==
  /\ Reading /\ pc = "r_setup"
  /\ IF (image_info.columns = 0) \/ (image_info.rows = 0)
     THEN /\ ThrowReaderException("MustSpecifyImageSize", 146)
          /\ known' = known \cup {"orig"}
          /\ UNCHANGED <<quantum, interlace, horizontal_factor, vertical_factor>>
     ELSE \E sf \in SamplingInputs :
            /\ op = "readback" =>
                 /\ HorizontalFactor(sf) = horizontal_factor
                 /\ VerticalFactor(sf) = vertical_factor
            /\ ReadSamplingRejected(sf)
                 \/ /\ image_info.columns >= HorizontalFactor(sf)
                    /\ image_info.rows >= VerticalFactor(sf)
            /\ IF ReadSamplingRejected(sf)
               THEN /\ ThrowReaderException("UnexpectedSamplingFactor", 166)
                    /\ known' = known \cup {"orig"}
                    /\ UNCHANGED <<quantum, interlace, horizontal_factor,
                                   vertical_factor>>
               ELSE /\ images' = <<NewImage(image_info.columns, image_info.rows)>>
                    /\ quantum' = IF image_info.depth <= 8 THEN 1 ELSE 2
                    /\ horizontal_factor' = HorizontalFactor(sf)
                    /\ vertical_factor' = VerticalFactor(sf)
                    /\ interlace' = ReadEffectiveInterlace(image_info.interlace,
                                                           VerticalFactor(sf))
                    /\ pc' = "r_open"
                    /\ UNCHANGED <<exception, blob, ret, known>>
  /\ UNCHANGED <<count, op, image_info, files, leaked, filename, scanline,
                 chroma_image, y, status, cancel, allocated, oob, cur, scene,
                 calls>>

\* Lines 144-174: the image, the sample width, the sampling factor, the layout.
R_Setup ==
  /\ Reading /\ pc = "r_setup"
  /\ IF (image_info.columns = 0) \/ (image_info.rows = 0)
     THEN /\ ThrowReaderException("MustSpecifyImageSize", 146)
          /\ UNCHANGED <<quantum, interlace, horizontal_factor, vertical_factor>>
     ELSE \E sf \in SamplingInputs :
            /\ op = "readback" =>
                 /\ HorizontalFactor(sf) = horizontal_factor
                 /\ VerticalFactor(sf) = vertical_factor
            /\ ReadSamplingRejected(sf)
                 \/ /\ image_info.columns >= HorizontalFactor(sf)
                    /\ image_info.rows >= VerticalFactor(sf)
            /\ IF ReadSamplingRejected(sf)
               THEN /\ ThrowReaderException("UnexpectedSamplingFactor", 166)
                    /\ UNCHANGED <<quantum, interlace, horizontal_factor,
                                   vertical_factor>>
               ELSE /\ images' = <<NewImage(image_info.columns, image_info.rows)>>
                    /\ quantum' = IF image_info.depth <= 8 THEN 1 ELSE 2
                    /\ horizontal_factor' = HorizontalFactor(sf)
                    /\ vertical_factor' = VerticalFactor(sf)
                    /\ interlace' = ReadEffectiveInterlace(image_info.interlace,
                                                           VerticalFactor(sf))
                    /\ pc' = "r_open"
                    /\ UNCHANGED <<exception, blob, ret>>
  /\ UNCHANGED <<count, op, image_info, files, known, leaked, filename, scanline,
                 chroma_image, y, status, cancel, allocated, oob, cur, scene,
                 calls>>

\* Lines 175-189: the stream of a single-stream layout.  A stream that cannot
\* be positioned at image->offset has no data left and is at end of file.
R_Open ==
  /\ Reading /\ pc = "r_open"
  /\ IF interlace # "PartitionInterlace"
     THEN \E opened \in Answers, len \in FileLengths("orig"),
             positioned \in Answers :
            IF ~opened
            THEN /\ OpenFailed
                 /\ UNCHANGED <<files, known>>
            ELSE /\ OpenedForRead("orig", IF positioned THEN len ELSE 0)
                 /\ positioned \/ "orig" \notin known
                 /\ IF positioned
                    THEN UNCHANGED exception
                    ELSE exception' = exception
                           \cup {Exception("UnexpectedEndOfFile", 187)}
                 /\ pc' = "r_scanline"
                 /\ UNCHANGED <<images, ret>>
     ELSE /\ pc' = "r_scanline"
          /\ UNCHANGED <<files, known, blob, leaked, exception, images, ret,
                         status>>
  /\ UNCHANGED <<count, op, image_info, quantum, interlace, horizontal_factor,
                 vertical_factor, filename, scanline, chroma_image, y,
                 cancel, allocated, oob, cur, scene, calls>>

\* Lines 190-200: the scanline buffer.
R_Scanline ==
  /\ Reading /\ pc = "r_scanline"
  /\ \E acquired \in Answers :
       IF acquired
       THEN /\ scanline' =
                 [i \in 0..((IF interlace = "NoInterlace"
                             THEN (2 * image_info.columns + 2) * quantum
                             ELSE image_info.columns * quantum) - 1) |-> Undef]
            /\ allocated' = allocated \cup {"scanline"}
            /\ pc' = "r_frame"
            /\ UNCHANGED <<exception, blob, images, ret>>
       ELSE /\ ThrowReaderException("MemoryAllocationFailed", 200)
            /\ UNCHANGED <<scanline, allocated>>
  /\ UNCHANGED <<count, op, image_info, quantum, interlace, horizontal_factor,
                 vertical_factor, files, known, leaked, filename, chroma_image,
                 y, status, cancel, oob, cur, scene, calls>>

\* Lines 201-222: the chroma plane of the frame, the scene limit of a ping,
\* and the Y stream of a partition.
R_Frame ==
  /\ Reading /\ pc = "r_frame"
  /\ \E cloned \in Answers, opened \in Answers, len \in FileLengths("Y") :
       IF ~cloned
       THEN /\ ThrowReaderException("MemoryAllocationFailed", 206)
            /\ UNCHANGED <<chroma_image, allocated, filename, files, known,
                           leaked, y, status>>
       ELSE
         /\ chroma_image' = NewImage(ChromaColumns, ChromaRows)
         /\ allocated' = allocated \cup {"chroma_image"}
         /\ IF image_info.ping /\ (image_info.number_scenes # 0)
                 /\ (Len(images) - 1 >= image_info.number_scenes - 1)
            THEN /\ pc' = "r_finish"
                 /\ UNCHANGED <<filename, files, known, leaked, y, blob,
                                exception, images, ret, status>>
            ELSE IF interlace = "PartitionInterlace"
            THEN /\ filename' = AppendImageFormat("Y", filename)
                 /\ IF opened
                    THEN /\ OpenedForRead("Y", len)
                         /\ y' = 0
                         /\ pc' = "r_luma"
                         /\ UNCHANGED <<exception, images, ret>>
                    ELSE /\ OpenFailed
                         /\ UNCHANGED <<files, known, y>>
            ELSE /\ y' = 0
                 /\ pc' = "r_luma"
                 /\ UNCHANGED <<filename, files, known, leaked, blob,
                                exception, images, ret, status>>
  /\ UNCHANGED <<count, op, image_info, quantum, interlace, horizontal_factor,
                 vertical_factor, scanline, cancel, oob, cur, scene,
                 calls>>

\* Where the frame goes after its luma rows, after its U rows.
AfterLuma ==
  IF interlace = "PartitionInterlace" THEN "r_openU"
  ELSE IF interlace # "NoInterlace" THEN "r_U"
  ELSE "r_scale"

AfterU == IF interlace = "PartitionInterlace" THEN "r_openV" ELSE "r_V"

\* Lines 223-316: one turn of the luma row loop.
R_LumaRow ==
  /\ Reading /\ pc = "r_luma"
  /\ LET image == CurrentImage
         fresh == (y > 0) \/ (Len(images) = 1)
         length == IF interlace = "NoInterlace"
                   THEN 2 * quantum * image_info.columns
                   ELSE quantum * image_info.columns
         buf == IF fresh THEN ReadBlobData(blob, length, scanline) ELSE scanline
         s0 == [image |-> image.pix, chroma |-> chroma_image.pix, oob |-> oob,
                p |-> 0, q |-> RowStart(image, y),
                cp |-> RowStart(chroma_image, y)]
         r == [columns |-> image_info.columns, quantum |-> quantum, buf |-> buf,
               qhi |-> RowEnd(image, y), chi |-> RowEnd(chroma_image, y),
               delivered |-> IF fresh THEN ReadBlobCount(blob, length)
                             ELSE count]
         s1 == IF interlace = "NoInterlace"
               THEN ReadNoInterlaceColumns(0, s0, r)
               ELSE ReadLumaColumns(0, s0, r)
     IN
       /\ scanline' = buf
       /\ count' = IF fresh THEN ReadBlobCount(blob, length) ELSE count
       /\ blob' = IF fresh THEN ReadBlobNext(blob, length) ELSE blob
       /\ IF (interlace = "NoInterlace") /\ (y >= chroma_image.rows)
          THEN \* QueueAuthenticPixels(chroma_image,...) returns NULL: break
               /\ pc' = AfterLuma
               /\ y' = 0
               /\ UNCHANGED <<images, chroma_image, oob, status, cancel, calls>>
          ELSE
            /\ images' = [images EXCEPT ![Len(images)].pix = s1.image]
            /\ chroma_image' = [chroma_image EXCEPT !.pix = s1.chroma]
            /\ oob' = s1.oob
            /\ IF Len(images) = 1
               THEN \E answer \in Answers :
                      /\ SetImageProgress(answer)
                      /\ IF answer /\ (y + 1 < image_info.rows)
                         THEN /\ y' = y + 1
                              /\ pc' = "r_luma"
                         ELSE /\ y' = 0
                              /\ pc' = AfterLuma
               ELSE /\ UNCHANGED <<status, cancel, calls>>
                    /\ IF y + 1 < image_info.rows
                       THEN /\ y' = y + 1
                            /\ pc' = "r_luma"
                       ELSE /\ y' = 0
                            /\ pc' = AfterLuma
  /\ UNCHANGED <<op, image_info, quantum, interlace, horizontal_factor,
                 vertical_factor, files, known, leaked, filename, exception,
                 ret, allocated, cur, scene>>

\* Lines 317-327 and 355-365: close the stream of the plane just read and
\* open the stream of the next plane of a partition.
R_OpenPlane(at, format, next) ==
  /\ Reading /\ pc = at
  /\ filename' = AppendImageFormat(format, filename)
  /\ \E opened \in Answers, len \in FileLengths(format) :
       /\ status' = opened
       /\ IF opened
          THEN /\ blob' = OpenedBlob(format)
               /\ files' = IF format \in known THEN files
                           ELSE [files EXCEPT ![format] = PatternFile(format, len)]
               /\ known' = known \cup {format}
               /\ pc' = next
               /\ UNCHANGED <<exception, images, ret>>
          ELSE /\ exception' = exception \cup {Exception("UnableToOpenBlob", 0)}
               /\ blob' = ClosedBlob
               /\ images' = << >>
               /\ ret' = [ret EXCEPT !.images = << >>]
               /\ pc' = "done"
               /\ UNCHANGED <<files, known>>
  /\ UNCHANGED <<count, op, image_info, quantum, interlace, horizontal_factor,
                 vertical_factor, leaked, scanline, chroma_image, y,
                 cancel, allocated, oob, cur, scene, calls>>

R_OpenU == R_OpenPlane("r_openU", "U", "r_U")

R_OpenV == R_OpenPlane("r_openV", "V", "r_V")

\* Lines 330-354 and 366-388: one turn of a chroma row loop.
R_ChromaRow(at, next) ==
  /\ Reading /\ pc = at
  /\ LET length == quantum * chroma_image.columns
         buf == ReadBlobData(blob, length, scanline)
         s0 == [chroma |-> chroma_image.pix, p |-> 0,
                q |-> RowStart(chroma_image, y)]
         r == [columns |-> chroma_image.columns, quantum |-> quantum,
               buf |-> buf]
         s1 == IF at = "r_U" THEN ReadUColumns(0, s0, r)
               ELSE ReadVColumns(0, s0, r)
     IN
       /\ scanline' = buf
       /\ count' = ReadBlobCount(blob, length)
       /\ blob' = ReadBlobNext(blob, length)
       /\ chroma_image' = [chroma_image EXCEPT !.pix = s1.chroma]
       /\ IF y + 1 < chroma_image.rows
          THEN /\ y' = y + 1
               /\ pc' = at
          ELSE /\ y' = 0
               /\ pc' = next
  /\ UNCHANGED <<op, image_info, quantum, interlace, horizontal_factor,
                 vertical_factor, files, known, leaked, filename, images,
                 status, exception, ret, cancel, allocated, oob, cur, scene,
                 calls>>

R_URow == R_ChromaRow("r_U", AfterU)

R_VRow == R_ChromaRow("r_V", "r_scale")

\* Lines 390-426: scale the chroma plane to the image's size, merge it into
\* the image, mark the image YCbCr, restore the file name, test for end of
\* file.
R_Scale ==
  /\ Reading /\ pc = "r_scale"
  /\ chroma_image' = NoImage
  /\ \E resized \in Answers :
       IF ~resized
       THEN /\ ThrowReaderException("MemoryAllocationFailed", 397)
            /\ allocated' = allocated \ {"chroma_image"}
            /\ UNCHANGED filename
       ELSE
         LET resize_image == ResizeImage(chroma_image, image_info.columns,
                                         image_info.rows)
         IN
         /\ images' = [images EXCEPT
                         ![Len(images)].pix =
                            MergeRows(0, CurrentImage.pix, resize_image),
                         ![Len(images)].colorspace = "YCbCr"]
         /\ allocated' = allocated \ {"chroma_image"}
         /\ filename' = IF interlace = "PartitionInterlace" THEN "orig"
                        ELSE filename
         /\ IF blob.eof
            THEN /\ exception' = exception
                      \cup {Exception("UnexpectedEndOfFile", 423)}
                 /\ pc' = "r_finish"
            ELSE /\ exception' = exception
                 /\ pc' = "r_next"
         /\ UNCHANGED <<blob, ret>>
  /\ UNCHANGED <<count, op, image_info, quantum, interlace, horizontal_factor,
                 vertical_factor, files, known, leaked, scanline, y, status,
                 cancel, oob, cur, scene, calls>>

\* Lines 427-454: the scene limit, the look ahead for another frame, the
\* next image of the list.
R_Next ==
  /\ Reading /\ pc = "r_next"
  /\ IF (image_info.number_scenes # 0)
          /\ (Len(images) - 1 >= image_info.number_scenes - 1)
     THEN /\ pc' = "r_finish"
          /\ UNCHANGED <<scanline, blob, images, exception, ret, status,
                         cancel, calls, count>>
     ELSE
       LET length == IF interlace = "NoInterlace"
                     THEN 2 * quantum * image_info.columns
                     ELSE quantum * image_info.columns
           got == ReadBlobCount(blob, length)
       IN
       /\ scanline' = ReadBlobData(blob, length, scanline)
       /\ count' = got
       /\ (got # 0) => (Len(images) < MaxFrames)   \* the model's cap on frames
       /\ IF got # 0
          THEN \E acquired \in Answers, answer \in Answers :
                 IF ~acquired
                 THEN /\ exception' = exception
                           \cup {Exception("MemoryAllocationFailed", 0)}
                      /\ blob' = ClosedBlob
                      /\ images' = << >>
                      /\ ret' = [ret EXCEPT !.images = << >>]
                      /\ pc' = "done"
                      /\ UNCHANGED <<status, cancel, calls>>
                 ELSE /\ blob' = ReadBlobNext(blob, length)
                      /\ images' = Append(images,
                           NewImage(image_info.columns, image_info.rows))
                      /\ SetImageProgress(answer)
                      /\ pc' = IF answer THEN "r_frame" ELSE "r_finish"
                      /\ UNCHANGED <<exception, ret>>
          ELSE /\ blob' = ReadBlobNext(blob, length)
               /\ pc' = "r_finish"
               /\ UNCHANGED <<images, exception, ret, status, cancel, calls>>
  /\ UNCHANGED <<op, image_info, quantum, interlace, horizontal_factor,
                 vertical_factor, files, known, leaked, filename, chroma_image,
                 y, allocated, oob, cur, scene>>

\* Lines 455-457: release the scanline, close the blob, return the list.
R_Finish ==
  /\ Reading /\ pc = "r_finish"
  /\ scanline' = << >>
  /\ allocated' = allocated \ {"scanline"}
  /\ blob' = ClosedBlob
  /\ ret' = [ret EXCEPT !.images = images]
  /\ pc' = "done"
  /\ UNCHANGED <<count, op, image_info, quantum, interlace, horizontal_factor,
                 vertical_factor, files, known, leaked, filename, images,
                 chroma_image, y, status, exception, cancel, oob, cur, scene,
                 calls>>

ReadYUVImage ==
  \/ R_Setup \/ R_Open \/ R_Scanline \/ R_Frame \/ R_LumaRow \/ R_OpenU
  \/ R_URow \/ R_OpenV \/ R_VRow \/ R_Scale \/ R_Next \/ R_Finish

(***************************************************************************)
(* WriteYUVImage.  The images handed to the encoder are image_info.frames  *)
(* frames of image_info.columns x image_info.rows; cur is the current one. *)
(* What ResizeImage and TransformImageColorspace make of frame f is given: *)
(* entry i of the pixels of its working copy k is Quanta(k, f, i).         *)
(***************************************************************************)
Writing == op = "write"

Quanta(k, f, i) == (1031 * i + 4099 * f + 9973 * k + 77) % 65536

Width == image_info.columns
           + BitAnd(image_info.columns, horizontal_factor - 1)

Height == image_info.rows + BitAnd(image_info.rows, vertical_factor - 1)

\* yuv_image of frame f: the frame at Width x Height, in YCbCr.
YuvImage(f) ==
  [columns |-> Width, rows |-> Height,
   pix |-> [i \in 0..(Width * Height * PixelChannels - 1) |-> Quanta(0, f, i)],
   colorspace |-> "YCbCr"]

\* chroma_image of frame f: the frame at the subsampled size, in YCbCr.
ChromaImage(f) ==
  [columns |-> Width \div horizontal_factor,
   rows |-> Height \div vertical_factor,
   pix |-> [i \in 0..((Width \div horizontal_factor)
                        * (Height \div vertical_factor) * PixelChannels - 1)
              |-> Quanta(1, f, i)],
   colorspace |-> "YCbCr"]

\* GetVirtualPixels(image,0,row,columns,1): the row, or the nearest row of
\* the image for a row outside it.
VirtualRowStart(img, row) ==
  RowStart(img, IF row < img.rows THEN row ELSE img.rows - 1)

WriteBlobByte(value) == <<value>>

WriteBlobShort(value) ==
  IF value < 0 THEN <<value, value>> ELSE <<value \div 256, value % 256>>

\* The column loop of a NoInterlace row, lines 668-697.  s holds the bytes
\* written and the pointers p (yuv_image) and s (chroma_image).
RECURSIVE WriteNoInterlaceColumns(_, _, _)
WriteNoInterlaceColumns(x, s, r) ==
  IF x >= r.columns THEN s
  ELSE
    LET p1 == s.p + PixelChannels
        bytes ==
          IF r.quantum = 1
          THEN WriteBlobByte(ScaleQuantumToChar(Load(r.chroma, s.s + GreenOffset)))
               \o WriteBlobByte(ScaleQuantumToChar(Load(r.yuv, s.p + RedOffset)))
               \o WriteBlobByte(ScaleQuantumToChar(Load(r.chroma, s.s + BlueOffset)))
               \o WriteBlobByte(ScaleQuantumToChar(Load(r.yuv, p1 + RedOffset)))
          ELSE WriteBlobByte(ScaleQuantumToChar(Load(r.chroma, s.s + GreenOffset)))
               \o WriteBlobShort(ScaleQuantumToShort(Load(r.yuv, s.p + RedOffset)))
               \o WriteBlobByte(ScaleQuantumToChar(Load(r.chroma, s.s + BlueOffset)))
               \o WriteBlobShort(ScaleQuantumToShort(Load(r.yuv, p1 + RedOffset)))
    IN  WriteNoInterlaceColumns(x + 2,
          [out |-> s.out \o bytes, p |-> p1 + PixelChannels, s |-> s.s + 1], r)

\* The column loop of a row of one plane, lines 719-728, 762-771, 797-806:
\* the samples of one channel of the row's pixels.
RECURSIVE WritePlaneColumns(_, _, _)
WritePlaneColumns(x, s, r) ==
  IF x >= r.columns THEN s
  ELSE
    LET value == Load(r.pix, s.p + r.channel)
        bytes == IF r.quantum = 1
                 THEN WriteBlobByte(ScaleQuantumToChar(value))
                 ELSE WriteBlobShort(ScaleQuantumToShort(value))
    IN  WritePlaneColumns(x + 1,
          [out |-> s.out \o bytes, p |-> s.p + PixelChannels], r)

\* ThrowWriterException: record the exception, close the blob, return false.
ThrowWriterException(tag, line) ==
  /\ exception' = exception \cup {Exception(tag, line)}
  /\ blob' = ClosedBlob
  /\ ret' = [ret EXCEPT !.status = FALSE]
  /\ pc' = "done"

\* OpenBlob for writing of stream n: the stream is created empty.
OpenedForWrite(n) ==
  /\ leaked' = leaked + (IF blob.open THEN 1 ELSE 0)
  /\ blob' = OpenedBlob(n)
  /\ files' = [files EXCEPT ![n] = << >>]
  /\ known' = known \cup {n}

\* A failed OpenBlob followed by return(status).
WriteOpenFailed ==
  /\ exception' = exception \cup {Exception("UnableToOpenBlob", 0)}
  /\ leaked' = leaked + (IF blob.open THEN 1 ELSE 0)
  /\ blob' = ClosedBlob
  /\ status' = FALSE
  /\ ret' = [ret EXCEPT !.status = FALSE]
  /\ pc' = "done"

\* Lines 587-614: the sample width, the sampling factor, the layout.
W_Setup ==
  /\ Writing /\ pc = "w_setup"
  /\ \E sf \in SamplingInputs :
       /\ WriteSamplingRejected(sf)
            \/ /\ (image_info.columns
                     + BitAnd(image_info.columns, HorizontalFactor(sf) - 1))
                    >= HorizontalFactor(sf)
               /\ (image_info.rows
                     + BitAnd(image_info.rows, VerticalFactor(sf) - 1))
                    >= VerticalFactor(sf)
       /\ IF WriteSamplingRejected(sf)
          THEN /\ ThrowWriterException("UnexpectedSamplingFactor", 606)
               /\ UNCHANGED <<quantum, interlace, horizontal_factor,
                              vertical_factor>>
          ELSE /\ quantum' = IF image_info.depth <= 8 THEN 1 ELSE 2
               /\ horizontal_factor' = HorizontalFactor(sf)
               /\ vertical_factor' = VerticalFactor(sf)
               /\ interlace' = WriteEffectiveInterlace(image_info.interlace,
                                                       VerticalFactor(sf))
               /\ pc' = "w_open"
               /\ UNCHANGED <<exception, blob, ret>>
  /\ UNCHANGED <<count, op, image_info, files, known, leaked, filename, scanline,
                 images, chroma_image, y, status, cancel, allocated, oob, cur,
                 scene, calls>>

\* Lines 615-631: the output stream, or the Y stream of a partition.
W_Open ==
  /\ Writing /\ pc = "w_open"
  /\ filename' = IF interlace # "PartitionInterlace" THEN filename
                 ELSE AppendImageFormat("Y", filename)
  /\ \E opened \in Answers :
       IF opened
       THEN /\ OpenedForWrite(IF interlace # "PartitionInterlace" THEN "orig"
                              ELSE "Y")
            /\ status' = TRUE
            /\ scene' = 0
            /\ pc' = "w_frame"
            /\ UNCHANGED <<exception, ret>>
       ELSE /\ WriteOpenFailed
            /\ UNCHANGED <<files, known, scene>>
  /\ UNCHANGED <<count, op, image_info, quantum, interlace, horizontal_factor,
                 vertical_factor, scanline, images, chroma_image, y, cancel,
                 allocated, oob, cur, calls>>

\* Lines 632-652: the two working copies of the frame.
W_Frame ==
  /\ Writing /\ pc = "w_frame"
  /\ \E resized \in Answers, sampled \in Answers :
       IF ~resized
       THEN /\ ThrowWriterException("MemoryAllocationFailed", 643)
            /\ UNCHANGED <<allocated, y>>
       ELSE IF ~sampled
       THEN /\ ThrowWriterException("MemoryAllocationFailed", 651)
            /\ allocated' = allocated \cup {"yuv_image"}
            /\ UNCHANGED y
       ELSE /\ allocated' = allocated \cup {"yuv_image", "chroma_image"}
            /\ y' = 0
            /\ pc' = IF interlace = "NoInterlace" THEN "w_rows" ELSE "w_Y"
            /\ UNCHANGED <<exception, blob, ret>>
  /\ UNCHANGED <<count, op, image_info, quantum, interlace, horizontal_factor,
                 vertical_factor, files, known, leaked, filename, scanline,
                 images, chroma_image, status, cancel, oob, cur, scene, calls>>

\* The bytes of one NoInterlace row of frame f, lines 660-697.
NoInterlaceRowBytes(f, row) ==
  WriteNoInterlaceColumns(0,
    [out |-> << >>, p |-> VirtualRowStart(YuvImage(f), row),
     s |-> VirtualRowStart(ChromaImage(f), row)],
    [columns |-> Width, quantum |-> quantum, yuv |-> YuvImage(f).pix,
     chroma |-> ChromaImage(f).pix]).out

\* The bytes of one row of a plane of frame f.
PlaneRowBytes(img, channel, row) ==
  WritePlaneColumns(0,
    [out |-> << >>, p |-> VirtualRowStart(img, row)],
    [columns |-> img.columns, quantum |-> quantum, pix |-> img.pix,
     channel |-> channel]).out

\* Lines 658-706 and 713-737: one turn of the row loop over yuv_image, in
\* either layout; after the loop yuv_image is destroyed.
W_YuvRow(at, next) ==
  /\ Writing /\ pc = at
  /\ files' = [files EXCEPT ![blob.name] =
                 @ \o (IF at = "w_rows" THEN NoInterlaceRowBytes(cur, y)
                       ELSE PlaneRowBytes(YuvImage(cur), RedOffset, y))]
  /\ IF cur = 1
     THEN \E answer \in Answers :
            /\ SetImageProgress(answer)
            /\ IF answer /\ (y + 1 < Height)
               THEN /\ y' = y + 1
                    /\ pc' = at
                    /\ UNCHANGED allocated
               ELSE /\ y' = 0
                    /\ pc' = next
                    /\ allocated' = allocated \ {"yuv_image"}
     ELSE /\ UNCHANGED <<status, cancel, calls>>
          /\ IF y + 1 < Height
             THEN /\ y' = y + 1
                  /\ pc' = at
                  /\ UNCHANGED allocated
             ELSE /\ y' = 0
                  /\ pc' = next
                  /\ allocated' = allocated \ {"yuv_image"}
  /\ UNCHANGED <<count, op, image_info, quantum, interlace, horizontal_factor,
                 vertical_factor, known, blob, leaked, filename, scanline,
                 images, chroma_image, exception, ret, oob, cur, scene>>

W_Row == W_YuvRow("w_rows", "w_end")

W_YRow == W_YuvRow("w_Y", "w_Ydone")

\* Lines 738-755 and 773-790: the progress of the frame after a plane, and
\* the stream of the next plane of a partition.
W_PlaneDone(at, format, next) ==
  /\ Writing /\ pc = at
  /\ y' = 0
  /\ \E answer \in Answers, opened \in Answers :
       /\ IF cur = 1 THEN Monitor(answer)
          ELSE answer /\ UNCHANGED <<cancel, calls>>
       /\ IF ~answer
          THEN /\ status' = FALSE
               /\ pc' = "w_finish"
               /\ UNCHANGED <<files, known, blob, filename, exception, ret>>
          ELSE IF interlace = "PartitionInterlace"
          THEN /\ filename' = AppendImageFormat(format, filename)
               /\ status' = opened
               /\ IF opened
                  THEN /\ blob' = OpenedBlob(format)
                       /\ files' = [files EXCEPT ![format] = << >>]
                       /\ known' = known \cup {format}
                       /\ pc' = next
                       /\ UNCHANGED <<exception, ret>>
                  ELSE /\ exception' = exception
                            \cup {Exception("UnableToOpenBlob", 0)}
                       /\ blob' = ClosedBlob
                       /\ ret' = [ret EXCEPT !.status = FALSE]
                       /\ pc' = "done"
                       /\ UNCHANGED <<files, known>>
          ELSE /\ status' = IF cur = 1 THEN TRUE ELSE status
               /\ pc' = next
               /\ UNCHANGED <<files, known, blob, filename, exception, ret>>
  /\ UNCHANGED <<count, op, image_info, quantum, interlace, horizontal_factor,
                 vertical_factor, leaked, scanline, images, chroma_image,
                 allocated, oob, cur, scene>>

W_YDone == W_PlaneDone("w_Ydone", "U", "w_U")

W_UDone == W_PlaneDone("w_Udone", "V", "w_V")

\* Lines 756-772 and 791-807: one turn of a chroma row loop.
W_ChromaRow(at, channel, next) ==
  /\ Writing /\ pc = at
  /\ files' = [files EXCEPT ![blob.name] =
                 @ \o PlaneRowBytes(ChromaImage(cur), channel, y)]
  /\ IF y + 1 < ChromaImage(cur).rows
     THEN /\ y' = y + 1
          /\ pc' = at
     ELSE /\ y' = 0
          /\ pc' = next
  /\ UNCHANGED <<count, op, image_info, quantum, interlace, horizontal_factor,
                 vertical_factor, known, blob, leaked, filename, scanline,
                 images, chroma_image, status, exception, ret, cancel,
                 allocated, oob, cur, scene, calls>>

W_URow == W_ChromaRow("w_U", GreenOffset, "w_Udone")

W_VRow == W_ChromaRow("w_V", BlueOffset, "w_Vdone")

\* Lines 808-813: the progress of the frame after its V plane.
W_VDone ==
  /\ Writing /\ pc = "w_Vdone"
  /\ IF cur = 1
     THEN \E answer \in Answers :
            /\ SetImageProgress(answer)
            /\ pc' = IF answer THEN "w_end" ELSE "w_finish"
     ELSE /\ pc' = "w_end"
          /\ UNCHANGED <<status, cancel, calls>>
  /\ UNCHANGED <<count, op, image_info, quantum, interlace, horizontal_factor,
                 vertical_factor, files, known, blob, leaked, filename,
                 scanline, images, chroma_image, y, exception, ret, allocated,
                 oob, cur, scene>>

\* Lines 815-826: release the chroma copy, restore the file name, go to the
\* next image of the list while there is one and adjoin is set.
W_End ==
  /\ Writing /\ pc = "w_end"
  /\ allocated' = allocated \ {"chroma_image"}
  /\ filename' = IF interlace = "PartitionInterlace" THEN "orig" ELSE filename
  /\ IF cur = image_info.frames
     THEN /\ pc' = "w_finish"
          /\ UNCHANGED <<cur, scene, status, cancel, calls>>
     ELSE \E answer \in Answers :
            /\ cur' = cur + 1
            /\ scene' = scene + 1
            /\ SetImageProgress(answer)
            /\ pc' = IF answer /\ image_info.adjoin THEN "w_frame"
                     ELSE "w_finish"
  /\ UNCHANGED <<count, op, image_info, quantum, interlace, horizontal_factor,
                 vertical_factor, files, known, blob, leaked, scanline, images,
                 chroma_image, y, exception, ret, oob>>

\* Lines 827-828: close the blob and return true.
W_Finish ==
  /\ Writing /\ pc = "w_finish"
  /\ blob' = ClosedBlob
  /\ ret' = [ret EXCEPT !.status = TRUE]
  /\ pc' = "done"
  /\ UNCHANGED <<count, op, image_info, quantum, interlace, horizontal_factor,
                 vertical_factor, files, known, leaked, filename, scanline,
                 images, chroma_image, y, status, exception, cancel, allocated,
                 oob, cur, scene, calls>>

\* The streams a write produced are handed to ReadYUVImage, with the same
\* size, depth, sampling factor and layout.
ReadBack ==
  /\ Writing /\ pc = "done"
  /\ ret.status /\ (exception = {}) /\ ~cancel
  /\ image_info.columns % horizontal_factor = 0
  /\ image_info.rows % vertical_factor = 0
  /\ op' = "readback"
  /\ pc' = "r_setup"
  /\ image_info' = [image_info EXCEPT !.interlace = interlace]
  /\ UNCHANGED <<count, quantum, interlace, horizontal_factor, vertical_factor, files,
                 known, blob, leaked, filename, scanline, images, chroma_image,
                 y, status, exception, ret, cancel, allocated, oob, cur, scene,
                 calls>>

WriteYUVImage ==
  \/ W_Setup \/ W_Open \/ W_Frame \/ W_Row \/ W_YRow \/ W_YDone \/ W_URow
  \/ W_UDone \/ W_VRow \/ W_VDone \/ W_End \/ W_Finish

(***************************************************************************)
(* The specification.                                                      *)
(***************************************************************************)
Columns == 0..MaxCols

Rows == 0..MaxRows

Depths == {8, 16}

ReadInfos ==
  {[columns |-> c, rows |-> r, depth |-> d, interlace |-> i, ping |-> p,
    number_scenes |-> n, adjoin |-> FALSE, frames |-> 0] :
     c \in Columns, r \in Rows, d \in Depths, i \in InterlaceTypes,
     p \in BOOLEAN, n \in 0..1}

InitCommon ==
  /\ quantum = 0
  /\ interlace = "UndefinedInterlace"
  /\ horizontal_factor = 2
  /\ vertical_factor = 2
  /\ files = [n \in Names |-> << >>]
  /\ known = {}
  /\ blob = ClosedBlob
  /\ leaked = 0
  /\ filename = "orig"
  /\ scanline = << >>
  /\ images = << >>
  /\ chroma_image = NoImage
  /\ y = 0
  /\ status = TRUE
  /\ exception = {}
  /\ ret = [images |-> << >>, status |-> FALSE]
  /\ cancel = FALSE
  /\ allocated = {}
  /\ oob = FALSE
  /\ cur = 1
  /\ scene = 0
  /\ calls = 0
  /\ count = 0

InitRead ==
  /\ op = "read"
  /\ pc = "r_setup"
  /\ image_info \in {i \in ReadInfos : i.ping => i.number_scenes # 0}
  /\ InitCommon

WriteInfos ==
  {[columns |-> c, rows |-> r, depth |-> d, interlace |-> i, ping |-> FALSE,
    number_scenes |-> 0, adjoin |-> a, frames |-> f] :
     c \in Columns \ {0}, r \in Rows \ {0}, d \in Depths,
     i \in InterlaceTypes, a \in BOOLEAN, f \in 1..MaxFrames}

InitWrite ==
  /\ op = "write"
  /\ pc = "w_setup"
  /\ image_info \in WriteInfos
  /\ InitCommon

Init == InitRead \/ InitWrite

Next == ReadYUVImage \/ WriteYUVImage \/ ReadBack

Spec == Init /\ [][Next]_vars

(***************************************************************************)
(* The claims.                                                             *)
(***************************************************************************)
ValidFactors == (horizontal_factor \in {1, 2}) /\ (vertical_factor \in {1, 2})

PlaneLayout == interlace \in {"PlaneInterlace", "PartitionInterlace"}

PixelOf(img, x, row, channel) ==
  img.pix[(row * img.columns + x) * PixelChannels + channel]

\* The value a decoder gets back from the bytes of a sample the encoder wrote
\* at the width in force.
AsEmitted(value) ==
  IF quantum = 1 THEN ScaleCharToQuantum(ScaleQuantumToChar(value))
  ELSE ScaleShortToQuantum(ScaleQuantumToShort(value))

\* The bytes of one sample of value v at the width in force.
SampleBytes(value) ==
  IF quantum = 1 THEN <<ScaleQuantumToChar(value)>>
  ELSE <<ScaleQuantumToShort(value) \div 256, ScaleQuantumToShort(value) % 256>>

\* Sample number i (from 0) of stream n, as the decoder's width reads it.
StreamSample(n, i) ==
  IF quantum = 1 THEN ScaleCharToQuantum(files[n][i + 1])
  ELSE ScaleShortToQuantum(files[n][2 * i + 1] * 256 + files[n][2 * i + 2])

\* C1: luma round trip.  When the streams WriteYUVImage produced for an image
\* whose size is a multiple of the (valid) sampling factors are decoded with
\* the same size, factors, layout and depth, the decoder returns an image and
\* every luma sample of its first frame is the luma sample the encoder
\* emitted for that pixel.
C1_LumaRoundTrip ==
  (op = "readback" /\ pc = "done" /\ ValidFactors) =>
    /\ Len(ret.images) >= 1
    /\ \A x \in 0..(image_info.columns - 1), row \in 0..(image_info.rows - 1) :
         PixelOf(ret.images[1], x, row, RedOffset)
           = AsEmitted(PixelOf(YuvImage(1), x, row, RedOffset))

\* The row the claim C2 describes: for each 2-column group k the samples
\* U, Y0, V, Y1, U and V the green and blue channel of pixel k of the chroma
\* row and Y0, Y1 the luma of columns 2k and 2k+1.
RECURSIVE DocumentedNoInterlaceRow(_, _, _)
DocumentedNoInterlaceRow(f, row, k) ==
  IF 2 * k >= Width THEN << >>
  ELSE SampleBytes(PixelOf(ChromaImage(f), k, row, GreenOffset))
       \o SampleBytes(PixelOf(YuvImage(f), 2 * k, row, RedOffset))
       \o SampleBytes(PixelOf(ChromaImage(f), k, row, BlueOffset))
       \o SampleBytes(PixelOf(YuvImage(f), 2 * k + 1, row, RedOffset))
       \o DocumentedNoInterlaceRow(f, row, k + 1)

\* C2: NoInterlace encode.  For both sample widths, every row the encoder
\* emits (for an even width and valid factors) is 2*s*W bytes: for each
\* 2-column group the four s-byte samples U, Y0, V, Y1 taken from pixel k of
\* the chroma row and from columns 2k and 2k+1 of the luma row.
C2_NoInterlaceRow ==
  [][(Writing /\ pc = "w_rows" /\ ValidFactors /\ Width % 2 = 0) =>
       /\ files'[blob.name]
            = files[blob.name] \o DocumentedNoInterlaceRow(cur, y, 0)
       /\ Len(files'[blob.name]) = Len(files[blob.name]) + 2 * quantum * Width
    ]_vars

\* C3: NoInterlace decode.  When the rows of a frame of even width have been
\* read in full, before resampling, luma pixels 2k and 2k+1 of each row hold
\* Y0 and Y1 of the row's k-th group and pixel k of the chroma row holds U in
\* green and V in blue.
C3_NoInterlaceDecode ==
  (op = "read" /\ pc = "r_scale" /\ interlace = "NoInterlace"
     /\ Len(images) = 1 /\ ValidFactors /\ image_info.columns % 2 = 0
     /\ ~cancel /\ ~blob.eof) =>
    \A row \in 0..(image_info.rows - 1),
       k \in 0..((image_info.columns \div 2) - 1) :
      LET at == row * 2 * image_info.columns + 4 * k
      IN  /\ PixelOf(CurrentImage, 2 * k, row, RedOffset)
               = StreamSample("orig", at + 1)
          /\ PixelOf(CurrentImage, 2 * k + 1, row, RedOffset)
               = StreamSample("orig", at + 3)
          /\ PixelOf(chroma_image, k, row, GreenOffset)
               = StreamSample("orig", at)
          /\ PixelOf(chroma_image, k, row, BlueOffset)
               = StreamSample("orig", at + 2)

\* The decoder has processed luma row `row` of the current image (it has set
\* the row's chroma channels to 0); it has processed row `row` of the U plane
\* (it has set the row's red channel to 0).
LumaRowRead(row) == PixelOf(CurrentImage, 0, row, GreenOffset) = 0

URowRead(row) == PixelOf(chroma_image, 0, row, RedOffset) = 0

C4_DecodeLumaFirst ==
  (Reading /\ PlaneLayout /\ exception = {}
     /\ pc \in {"r_openU", "r_U", "r_openV", "r_V"}) =>
    \A row \in 0..(image_info.rows - 1) : LumaRowRead(row)

C4_DecodeUBeforeV ==
  (Reading /\ PlaneLayout /\ pc \in {"r_openV", "r_V"}) =>
    \A row \in 0..(chroma_image.rows - 1) : URowRead(row)

C4_DecodeUIndex ==
  LET n == IF interlace = "PlaneInterlace" THEN "orig" ELSE "U"
      first == IF interlace = "PlaneInterlace"
               THEN image_info.columns * image_info.rows ELSE 0
  IN  (op = "read" /\ PlaneLayout /\ pc = "r_scale" /\ Len(images) = 1
         /\ ~cancel
         /\ Len(files[n]) >= quantum * (first + ChromaColumns * ChromaRows)) =>
        \A row \in 0..(chroma_image.rows - 1),
           x \in 0..(chroma_image.columns - 1) :
          PixelOf(chroma_image, x, row, GreenOffset)
            = StreamSample(n, first + ChromaColumns * row + x)

C4_EncodeOrder ==
  (Writing /\ interlace = "PlaneInterlace" /\ cur = 1) =>
    LET luma == quantum * Width * Height
        plane == quantum * (Width \div horizontal_factor)
                   * (Height \div vertical_factor)
    IN  /\ (pc = "w_U" /\ y = 0) => Len(files["orig"]) = luma
        /\ (pc = "w_V" /\ y = 0) => Len(files["orig"]) = luma + plane
        /\ (pc = "w_end") => Len(files["orig"]) = luma + 2 * plane

\* C4: plane order.  Under PlaneInterlace and PartitionInterlace, in every
\* frame the decoder and the encoder process all H luma rows before any U
\* row and all U rows before any V row, a frame takes
\* s*W*H + 2*s*(W/h)*(H/v) bytes, and U sample (x,y) is sample (W/h)*y+x of
\* the U plane.
C4_PlaneOrder ==
  /\ C4_DecodeLumaFirst
  /\ C4_DecodeUBeforeV
  /\ C4_DecodeUIndex
  /\ C4_EncodeOrder

\* The table of the effective layout.
LayoutTable(declared, v) ==
  CASE declared = "UndefinedInterlace" /\ v = 1 -> "NoInterlace"
    [] declared = "UndefinedInterlace" /\ v = 2 -> "PlaneInterlace"
    [] declared = "NoInterlace" /\ v = 1 -> "NoInterlace"
    [] declared = "NoInterlace" /\ v = 2 -> "PlaneInterlace"
    [] declared = "PlaneInterlace" -> "PlaneInterlace"
    [] declared = "PartitionInterlace" -> "PartitionInterlace"

\* C5: layout derivation.  In ReadYUVImage and in WriteYUVImage, once the
\* layout is derived with a vertical factor of 1 or 2, the effective layout
\* is the table's entry for the declared layout and the vertical factor, and
\* it is never NoInterlace when the vertical factor is 2.
C5_EffectiveLayout ==
  (quantum # 0 /\ vertical_factor \in {1, 2}) =>
    /\ interlace = LayoutTable(image_info.interlace, vertical_factor)
    /\ ~(vertical_factor = 2 /\ interlace = "NoInterlace")

\* A coder has derived PlaneInterlace from a declared NoInterlace with a
\* vertical factor of 2.
C5_Witness ==
  /\ pc \in {"r_open", "w_open"}
  /\ image_info.interlace = "NoInterlace"
  /\ vertical_factor = 2
  /\ interlace = "PlaneInterlace"

\* C6: sampling-factor validation.  A run that has passed the validation of
\* the sampling factor has both factors in {1,2}.
C6_FactorsValidated == (quantum # 0) => ValidFactors

\* C7: partition encode stream order.  In every frame written under
\* PartitionInterlace the luma rows go to the open Y stream, the U rows to
\* the U stream and the V rows to the V stream, and a frame after the first
\* starts with the original file name restored.
C7_PartitionStreams ==
  (Writing /\ interlace = "PartitionInterlace") =>
    /\ (pc = "w_Y") => (blob.open /\ blob.name = "Y" /\ filename = "Y")
    /\ (pc = "w_U") => (blob.open /\ blob.name = "U" /\ filename = "U")
    /\ (pc = "w_V") => (blob.open /\ blob.name = "V" /\ filename = "V")
    /\ (pc = "w_frame" /\ cur > 1) => (filename = "orig")

\* The errors ReadYUVImage meets while it works on a frame.
FrameErrors ==
  {Exception("UnexpectedEndOfFile", 423), Exception("UnableToOpenBlob", 0),
   Exception("MemoryAllocationFailed", 206),
   Exception("MemoryAllocationFailed", 397),
   Exception("MemoryAllocationFailed", 0)}

\* C8: decode result on error.  When ReadYUVImage returns after an error met
\* while working on a frame, it returns exactly the frames before that one:
\* none of them destroyed, the frame in work not among them.
C8_ErrorKeepsCompleteFrames ==
  [][(Reading /\ pc # "done" /\ pc' = "done" /\ ~cancel
        /\ exception' # {} /\ exception' \subseteq FrameErrors) =>
       ret'.images = SubSeq(images, 1, Len(images) - 1)]_vars

\* C9: truncation.  When ReadYUVImage has read a first frame to its end and
\* a stream that supplied one of its planes was shorter than the plane, it
\* has reported UnexpectedEndOfFile.
C9_TruncationReported ==
  (op = "read" /\ pc = "done" /\ ~cancel /\ ~image_info.ping /\ ValidFactors
     /\ exception \subseteq {Exception("UnexpectedEndOfFile", 423)}
     /\ known # {}
     /\ \E n \in known : Len(files[n]) < StreamFrameBytes(n)) =>
    Exception("UnexpectedEndOfFile", 423) \in exception

\* C10: a stream that cannot be positioned.  After DiscardBlobBytes has
\* failed, ReadYUVImage reads no scanline, decodes no row and returns no
\* frame.
C10_DiscardFailureAborts ==
  (Reading /\ Exception("UnexpectedEndOfFile", 187) \in exception) =>
    /\ pc \notin {"r_luma", "r_U", "r_V", "r_scale", "r_next"}
    /\ ret.images = << >>

\* The errors of the configuration: a missing size, a rejected sampling
\* factor.
ConfigurationErrors ==
  {Exception("MustSpecifyImageSize", 146),
   Exception("UnexpectedSamplingFactor", 166),
   Exception("UnexpectedSamplingFactor", 606)}

\* C11: configuration errors precede all I/O.  When ReadYUVImage has thrown
\* for zero columns or rows, or either coder has rejected the sampling
\* factor, the coder has returned no image and a false status, and no stream
\* has been opened, read or written.
C11_ConfigErrorsPrecedeIO ==
  ((exception \cap ConfigurationErrors) # {}) =>
    /\ pc = "done"
    /\ ret.images = << >> /\ ~ret.status
    /\ known = {} /\ ~blob.open /\ leaked = 0
    /\ \A n \in Names : files[n] = << >>
    /\ scanline = << >> /\ calls = 0

\* ReadYUVImage has rejected a sampling factor and returned.
C11_Witness ==
  /\ op = "read" /\ pc = "done"
  /\ Exception("UnexpectedSamplingFactor", 166) \in exception

\* The substreams open at this moment: the one the blob holds and those an
\* OpenBlob detached from it without closing.
OpenSubstreams == leaked + (IF blob.open THEN 1 ELSE 0)

\* C12: substream open/close pairing.  In decode and encode at most one
\* substream is open at a time (each is closed before the next is opened) and
\* none is open when the coder has returned.
C12_OpenClosePairing ==
  /\ OpenSubstreams <= 1
  /\ (pc = "done") => (OpenSubstreams = 0)

\* The positions at which a coder processes one row per step.
RowLabels == {"r_luma", "r_U", "r_V", "w_rows", "w_Y", "w_U", "w_V"}

\* C13: cancellation is checked once per row.  Every step of decode or
\* encode that processes a row (luma, U or V, of any frame; no error so far,
\* valid factors) consults the
\* progress monitor once, and no row is processed once the monitor has
\* answered no.
C13_CancellationPerRow ==
  [][(pc \in RowLabels /\ ValidFactors /\ exception = {}) =>
       (~cancel /\ calls' = calls + 1)]_vars

\* C14: buffer release.  When decode or encode has returned, on any path, the
\* scanline buffer and every working image acquired (chroma plane, resized
\* chroma, the encoder's two working copies) has been released.
C14_BuffersReleased == (pc = "done") => (allocated = {})

\* The failures of the environment met so far: an allocation or an OpenBlob
\* that failed, a stream that could not be positioned.
EnvironmentFailures ==
  {e \in exception :
     e.tag \in {"MemoryAllocationFailed", "UnableToOpenBlob"} \/ e.line = 187}

\* The size of a frame of the single stream as documented: W*H*2*s bytes
\* for NoInterlace, s*W*H + 2*s*(W/h)*(H/v) for PlaneInterlace.
DocumentedFrameBytes ==
  IF interlace = "NoInterlace"
  THEN 2 * quantum * image_info.columns * image_info.rows
  ELSE quantum * image_info.columns * image_info.rows
         + 2 * quantum * ChromaColumns * ChromaRows

\* The index, in samples from the start of a frame, of luma sample (x, row).
LumaSampleIndex(x, row) ==
  IF interlace = "NoInterlace"
  THEN row * 2 * image_info.columns + 4 * (x \div 2) + 1 + 2 * (x % 2)
  ELSE row * image_info.columns + x

\* C15: multi-frame continuation in the single-stream layouts.  When
\* ReadYUVImage has worked through a stream of exactly N >= 1 frames of F
\* bytes (no scene limit, no cancellation, no failure of the environment), it
\* has met no error, has N images, has consumed every byte of the stream,
\* returns the N images, and the luma of frame k is the luma of bytes
\* [(k-1)*F, k*F): the row the look-ahead read is row 0 of the next frame.
C15_Continuation ==
  LET F == DocumentedFrameBytes
      N == Len(files["orig"]) \div F
  IN  (op = "read" /\ pc \in {"r_finish", "done"}
         /\ interlace \in {"NoInterlace", "PlaneInterlace"}
         /\ image_info.number_scenes = 0 /\ ~cancel
         /\ EnvironmentFailures = {}
         /\ "orig" \in known /\ Len(files["orig"]) >= F
         /\ Len(files["orig"]) % F = 0) =>
        /\ exception = {}
        /\ Len(images) = N
        /\ (pc = "r_finish") => (blob.pos = Len(files["orig"]))
        /\ (pc = "done") => (ret.images = images)
        /\ \A k \in 1..N, x \in 0..(image_info.columns - 1),
              row \in 0..(image_info.rows - 1) :
             PixelOf(images[k], x, row, RedOffset)
               = StreamSample("orig",
                   (k - 1) * (F \div quantum) + LumaSampleIndex(x, row))

\* C16: bounds in NoInterlace decode, for every width.  While rows are read
\* in full, the column loop stores only into the W luma pixels of the current
\* row and the chroma pixels of the current chroma row, and takes from the
\* scanline only bytes the row's read delivered.
C16_NoInterlaceBounds ==
  (op = "read" /\ interlace = "NoInterlace" /\ ValidFactors
     /\ exception = {} /\ ~blob.eof) => ~oob

====
